---- MODULE Spec2Model ----
(***************************************************************************)
(* A model of plex_upgrade.py: the quality check, the ranking of search    *)
(* results and one run of upgrade_playlist(), started either by the        *)
(* script's main loop or by a direct call of the function.                 *)
(*                                                                         *)
(* Python strings are sequences of one-character strings; Python's None    *)
(* is the value None (for strings) or NoneInt (for numbers).               *)
(***************************************************************************)
EXTENDS Integers, Sequences, FiniteSets, TLC

\* ------------------------------------------------------------------ bounds
MaxLen == 2

MaxRaw == 2

MaxPrompts == 2

\* --------------------------------------------------------- Python values
None == <<"None">>

NoneInt == 0 - 1

\* bool(x) of an optional string: None and "" are falsy
Truthy(s) == s # None /\ s # <<>>

\* bool(x) of an optional number: None and 0 are falsy
TruthyInt(n) == n # NoneInt /\ n # 0

\* ord() of the characters artist names are built from
Ord(c) ==
  CASE c = "A" -> 65
    [] c = "B" -> 66
    [] c = "a" -> 97
    [] c = "b" -> 98
    [] c = " " -> 32
    [] OTHER -> 0

\* str.casefold(), one character at a time
FoldChar(c) ==
  CASE c = "A" -> "a"
    [] c = "B" -> "b"
    [] OTHER -> c

casefold(s) == [i \in 1..Len(s) |-> FoldChar(s[i])]

\* Python's  sub in s  on strings
StrIn(sub, s) ==
  \E k \in 0..(Len(s) - Len(sub)) :
     \A i \in 1..Len(sub) : s[k + i] = sub[i]

\* Python's  a < b  on strings: lexicographic by code point
RECURSIVE StrLess(_, _)
StrLess(a, b) ==
  IF b = <<>> THEN FALSE
  ELSE IF a = <<>> THEN TRUE
  ELSE IF Ord(Head(a)) # Ord(Head(b)) THEN Ord(Head(a)) < Ord(Head(b))
  ELSE StrLess(Tail(a), Tail(b))

\* ---------------------------------------------------------------- tracks
\* artist(item): item.originalTitle or item.grandparentTitle
artist(item) ==
  IF Truthy(item.originalTitle) THEN item.originalTitle ELSE item.grandparentTitle

\* ------------------------------------------------- quality requirements
\* the thresholds taken inclusively
check_quality_requirements_Inclusive(cfg, item) ==
  IF Truthy(cfg.force_all) THEN FALSE
  ELSE IF Truthy(cfg.force_lossless) THEN item.audioCodec \in {"alac", "flac"}
  ELSE ~ (   (item.audioCodec = "mp3" /\ item.bitrate <= 320)
          \/ (item.audioCodec = "aac" /\ item.bitrate <= 256))

check_quality_requirements(cfg, item) ==
  IF Truthy(cfg.force_all) THEN FALSE
  ELSE IF Truthy(cfg.force_lossless) THEN item.audioCodec \in {"alac", "flac"}
  ELSE ~ (   (item.audioCodec = "mp3" /\ item.bitrate < 320)
          \/ (item.audioCodec = "aac" /\ item.bitrate < 256))

\* ---------------------------------------------------------------- ranker
\* no bitrate filter at all
HigherBitrate_Unfiltered(it, results) == results

\* line 413: keep the results with a bitrate above the item's
HigherBitrate(it, results) ==
  SelectSeq(results, LAMBDA r : TruthyInt(r.bitrate) /\ r.bitrate > it.bitrate)

\* the containment test the other way round
SameArtist_Reversed(it, results) ==
  SelectSeq(results, LAMBDA r : StrIn(casefold(artist(r)), casefold(artist(it))))

\* no artist filter at all
SameArtist_Unfiltered(it, results) == results

\* line 416: keep the results whose artist contains the item's artist
SameArtist(it, results) ==
  SelectSeq(results, LAMBDA r : StrIn(casefold(artist(it)), casefold(artist(r))))

\* the key of the first sort (lines 421-423)
ArtistKey(x) ==
  IF x.originalTitle # None THEN x.originalTitle ELSE x.grandparentTitle

\* the key of the second sort (line 425)
BitrateKey(x) == x.bitrate

\* sorted() is stable: x goes behind every element that is not after it
RECURSIVE InsertByArtist(_, _)
InsertByArtist(x, s) ==
  IF s = <<>> THEN <<x>>
  ELSE IF StrLess(ArtistKey(x), ArtistKey(Head(s))) THEN <<x>> \o s
  ELSE <<Head(s)>> \o InsertByArtist(x, Tail(s))

RECURSIVE SortedByArtist(_)
SortedByArtist(s) ==
  IF s = <<>> THEN <<>>
  ELSE InsertByArtist(s[Len(s)], SortedByArtist(SubSeq(s, 1, Len(s) - 1)))

\* sorted(..., reverse=True) is stable too
RECURSIVE InsertByBitrate(_, _)
InsertByBitrate(x, s) ==
  IF s = <<>> THEN <<x>>
  ELSE IF BitrateKey(x) > BitrateKey(Head(s)) THEN <<x>> \o s
  ELSE <<Head(s)>> \o InsertByBitrate(x, Tail(s))

RECURSIVE SortedByBitrate(_)
SortedByBitrate(s) ==
  IF s = <<>> THEN <<>>
  ELSE InsertByBitrate(s[Len(s)], SortedByBitrate(SubSeq(s, 1, Len(s) - 1)))

\* lines 413-425 as a whole
Rank(it, results) ==
  SortedByBitrate(SortedByArtist(SameArtist(it, HigherBitrate(it, results))))

\* ----------------------------------------------------------------- state
VARIABLES
  pc,              \* where the run is
  entry,           \* "main": started by the main loop; "call": called directly
  config,          \* the upgrade.* options of config.ini
  catalog,         \* the library's answer to the search for each track asked so far
  playlists,       \* the server's playlists, by id
  playlist,        \* the local variable playlist (a playlist id)
  items,           \* the local variable items
  idx,             \* position of the for loop in items (1-based)
  item,            \* the track the loop is at
  search_results,  \* what server.library.search returned for it
  replacements,    \* the local variable replacements
  items_to_remove,
  items_to_add,
  items_ommited,
  duplicate,
  simple_mode,
  dry,
  response,        \* the last string read by input() for this track
  decision,        \* what was decided for item
  prompts,         \* number of input() calls of the run
  calls,           \* the Playlist.create / removeItems / addItems calls, in order
  returned,        \* the playlist id returned, 0 before the return
  meets            \* the last result of check_quality_requirements

vars == <<pc, entry, config, catalog, playlists, playlist, items, idx, item,
          search_results, replacements, items_to_remove, items_to_add,
          items_ommited, duplicate, simple_mode, dry, response, decision,
          prompts, calls, returned, meets>>

\* ------------------------------------------------------- the small world
Track(k, o, g, c, b) ==
  [ratingKey |-> k, originalTitle |-> o, grandparentTitle |-> g,
   audioCodec |-> c, bitrate |-> b]

NoItem == Track(0, None, <<>>, "", 0)

P1 == Track(1, None, <<"a">>, "mp3", 128)

P2 == Track(2, <<"A">>, <<"B">>, "flac", 900)

L3 == Track(3, None, <<"a", " ", "b">>, "mp3", 320)

L4 == Track(4, <<"A">>, <<"B">>, "flac", 1000)

PlaylistTracks == {P1, P2}

Library == {L3, L4}

\* sequences of at most n elements of S
SeqsUpTo(S, n) == UNION {[1..k -> S] : k \in 0..n}

NoRepeat(s) == \A i, j \in 1..Len(s) : i # j => s[i] # s[j]

\* what a search can answer: some tracks of the library, each once
SearchAnswers == {s \in SeqsUpTo(Library, Cardinality(Library)) : NoRepeat(s)}

Favorites == <<"F", "a", "v">>

Titles == {Favorites, <<"X">>}

\* config.get() gives the text of an option, or None when it is not set
Configs ==
  { [force_all |-> None, force_lossless |-> None],
    [force_all |-> <<"1">>, force_lossless |-> None] }

\* what the user can type at the selection prompt
Responses ==
  { <<>>, <<"x">>, <<"0">>, <<"1">>, <<"5">>, <<"-", "1">>, <<"-", "5">> }

\* ------------------------------------------------------------- int(text)
IsDigit(c) == c \in {"0", "1", "2", "3", "4", "5", "6", "7", "8", "9"}

DigitVal(c) ==
  CASE c = "0" -> 0 [] c = "1" -> 1 [] c = "2" -> 2 [] c = "3" -> 3
    [] c = "4" -> 4 [] c = "5" -> 5 [] c = "6" -> 6 [] c = "7" -> 7
    [] c = "8" -> 8 [] OTHER -> 9

RECURSIVE DigitsVal(_)
DigitsVal(s) ==
  IF s = <<>> THEN 0
  ELSE 10 * DigitsVal(SubSeq(s, 1, Len(s) - 1)) + DigitVal(s[Len(s)])

AllDigits(s) == s # <<>> /\ \A i \in 1..Len(s) : IsDigit(s[i])

\* int(s) raises ValueError unless s is digits with an optional sign
IntOk(s) ==
  IF s # <<>> /\ Head(s) \in {"-", "+"} THEN AllDigits(Tail(s)) ELSE AllDigits(s)

IntVal(s) ==
  IF Head(s) = "-" THEN 0 - DigitsVal(Tail(s))
  ELSE IF Head(s) = "+" THEN DigitsVal(Tail(s))
  ELSE DigitsVal(s)

\* seq[i] of a Python list raises IndexError outside -len..len-1
IndexOk(s, i) == 0 - Len(s) <= i /\ i < Len(s)

PyIndex(s, i) == IF i >= 0 THEN s[i + 1] ELSE s[Len(s) + i + 1]

\* ------------------------------------------------- the playlist service
\* Playlist.create(server, title, summary, items, playlistType)
Create(title, summary, its, type) ==
  [title |-> title, summary |-> summary, items |-> its, playlistType |-> type]

\* the list without its first entry for track t
RECURSIVE RemoveFirst(_, _)
RemoveFirst(s, t) ==
  IF s = <<>> THEN <<>>
  ELSE IF Head(s).ratingKey = t.ratingKey THEN Tail(s)
  ELSE <<Head(s)>> \o RemoveFirst(Tail(s), t)

\* playlist.removeItems(ts)
RECURSIVE RemoveItems(_, _)
RemoveItems(s, ts) ==
  IF ts = <<>> THEN s ELSE RemoveItems(RemoveFirst(s, Head(ts)), Tail(ts))

\* playlist.addItems(ts)
AddItems(s, ts) == s \o ts

CopyOf == <<"C", "o", "p", "y", " ", "o", "f", " ">>

\* ------------------------------------------------ pieces of the run
\* the user's answer taken whatever dry is
MainSimpleMode_Asked(d, answer) == answer

\* line 557: simple_mode = True if dry else choose_simple_replacement_mode()
MainSimpleMode(d, answer) == IF d THEN TRUE ELSE answer

\* line 560: duplicate = False if dry else choose_duplication()
MainDuplicate(d, answer) == IF d THEN FALSE ELSE answer

\* the copy made without looking at dry
ShouldDuplicate_NoDryTest(dup, d) == dup

\* line 380: if duplicate and not dry
ShouldDuplicate(dup, d) == dup /\ ~d

\* the copy given the title of the original
CopyTitle_Same(t) == t

\* line 383: title=f"Copy of {playlist.title}"
CopyTitle(t) == CopyOf \o t

\* a bad answer taken as no selection
ManualOutcome_Forgiving(reps, r) ==
  IF ~ Truthy(r) THEN "omit"
  ELSE IF ~ IntOk(r) THEN "omit"
  ELSE IF ~ IndexOk(reps, IntVal(r)) THEN "omit"
  ELSE "replace"

\* lines 455-471: what one answer at the prompt leads to
\*   "omit": nothing typed, the loop breaks without a replacement
\*   "again": ValueError or IndexError, the prompt is repeated
\*   "replace": replacements[int(index)] is taken
ManualOutcome(reps, r) ==
  IF ~ Truthy(r) THEN "omit"
  ELSE IF ~ IntOk(r) THEN "again"
  ELSE IF ~ IndexOk(reps, IntVal(r)) THEN "again"
  ELSE "replace"

\* the track recorded as omitted whatever was selected
OmitAfterPrompt_Always(replacement_candidate) == TRUE

\* lines 474-475: if not replacement_candidate: items_ommited.append(item)
OmitAfterPrompt(replacement_candidate) == ~ replacement_candidate

\* removeItems called with an empty list too
ShouldRemove_Always(rem) == TRUE

\* line 490 / line 498: if len(items_to_remove) / if len(items_to_add)
ShouldRemove(rem) == Len(rem) > 0

ShouldAdd(add) == Len(add) > 0

\* lines 406-410: the library does not change during a run, so the search
\* for a track gives the answer it gave before
Asked(it) == it.ratingKey \in DOMAIN catalog

Answered(it, res) ==
  [k \in DOMAIN catalog \cup {it.ratingKey} |->
     IF k = it.ratingKey THEN res ELSE catalog[k]]

Call(op, target) == [op |-> op, target |-> target]

\* ------------------------------------------------------------ the run
Init ==
  /\ pc = "idle"
  /\ entry = "none"
  /\ config \in Configs
  /\ \E t \in Titles, its \in SeqsUpTo(PlaylistTracks, MaxLen) :
       playlists = <<Create(t, <<"s">>, its, "audio")>>
  /\ catalog = <<>>
  /\ playlist = 1
  /\ items = <<>>
  /\ idx = 1
  /\ item = NoItem
  /\ search_results = <<>>
  /\ replacements = <<>>
  /\ items_to_remove = <<>>
  /\ items_to_add = <<>>
  /\ items_ommited = <<>>
  /\ duplicate = FALSE
  /\ simple_mode = FALSE
  /\ dry = FALSE
  /\ response = None
  /\ decision = "none"
  /\ prompts = 0
  /\ calls = <<>>
  /\ returned = 0
  /\ meets = FALSE

\* the main loop asks for the options and calls upgrade_playlist
Main ==
  /\ pc = "idle"
  /\ \E d, s, dup \in BOOLEAN :
       /\ dry' = d
       /\ simple_mode' = MainSimpleMode(d, s)
       /\ duplicate' = MainDuplicate(d, dup)
  /\ entry' = "main"
  /\ pc' = "begin"
  /\ UNCHANGED <<config, catalog, playlists, playlist, items, idx, item, search_results,
                 replacements, items_to_remove, items_to_add, items_ommited,
                 response, decision, prompts, calls, returned, meets>>

\* upgrade_playlist called with arguments of the caller's choice
DirectCall ==
  /\ pc = "idle"
  /\ \E d, s, dup \in BOOLEAN :
       /\ dry' = d
       /\ simple_mode' = s
       /\ duplicate' = dup
  /\ entry' = "call"
  /\ pc' = "begin"
  /\ UNCHANGED <<config, catalog, playlists, playlist, items, idx, item, search_results,
                 replacements, items_to_remove, items_to_add, items_ommited,
                 response, decision, prompts, calls, returned, meets>>

\* lines 376-396: read the items, copy the playlist when asked to
Begin ==
  /\ pc = "begin"
  /\ IF ShouldDuplicate(duplicate, dry)
       THEN LET old == playlists[playlist]
                new == Create(CopyTitle(old.title), old.summary, old.items,
                              old.playlistType)
            IN /\ playlists' = Append(playlists, new)
               /\ playlist' = Len(playlists) + 1
               /\ items' = new.items
               /\ calls' = Append(calls, Call("create", Len(playlists) + 1))
       ELSE /\ items' = playlists[playlist].items
            /\ UNCHANGED <<playlists, playlist, calls>>
  /\ items_to_remove' = <<>>
  /\ items_to_add' = <<>>
  /\ items_ommited' = <<>>
  /\ idx' = 1
  /\ pc' = "scan"
  /\ UNCHANGED <<entry, config, catalog, item, search_results, replacements, duplicate,
                 simple_mode, dry, response, decision, prompts, returned, meets>>

\* lines 401-445 and 482-483: one pass of the for loop, up to the prompt
ScanTrack ==
  /\ pc = "scan"
  /\ idx <= Len(items)
  /\ LET it == items[idx]
         ok == check_quality_requirements(config, it)
     IN /\ item' = it
        /\ meets' = ok
        /\ response' = None
        /\ IF ok
             THEN /\ decision' = "Kept"
                  /\ idx' = idx + 1
                  /\ search_results' = <<>>
                  /\ replacements' = <<>>
                  /\ UNCHANGED <<pc, catalog, items_to_remove, items_to_add,
                                 items_ommited>>
             ELSE \E res \in SearchAnswers :
                    LET reps == Rank(it, res)
                    IN /\ Asked(it) => res = catalog[it.ratingKey]
                       /\ catalog' = Answered(it, res)
                       /\ search_results' = res
                       /\ replacements' = reps
                       /\ IF Len(reps) = 0
                            THEN /\ items_ommited' = Append(items_ommited, it)
                                 /\ decision' = "Omitted"
                                 /\ idx' = idx + 1
                                 /\ UNCHANGED <<pc, items_to_remove, items_to_add>>
                            ELSE IF simple_mode
                            THEN /\ items_to_add' = Append(items_to_add, reps[1])
                                 /\ items_to_remove' = Append(items_to_remove, it)
                                 /\ decision' = "Replaced"
                                 /\ idx' = idx + 1
                                 /\ UNCHANGED <<pc, items_ommited>>
                            ELSE /\ pc' = "prompt"
                                 /\ decision' = "pending"
                                 /\ UNCHANGED <<idx, items_to_remove, items_to_add,
                                                items_ommited>>
  /\ UNCHANGED <<entry, config, playlists, playlist, items, duplicate,
                 simple_mode, dry, prompts, calls, returned>>

\* lines 455-480: one input() at the prompt and what follows from it
Prompt ==
  /\ pc = "prompt"
  /\ \E r \in Responses :
       LET out == ManualOutcome(replacements, r)
       IN /\ response' = r
          /\ prompts' = prompts + 1
          /\ CASE out = "again" ->
                    /\ prompts < MaxPrompts
                    /\ UNCHANGED <<pc, idx, decision, items_to_remove,
                                   items_to_add, items_ommited>>
               [] out = "replace" ->
                    /\ items_to_add' =
                         Append(items_to_add, PyIndex(replacements, IntVal(r)))
                    /\ items_to_remove' = Append(items_to_remove, item)
                    /\ items_ommited' =
                         IF OmitAfterPrompt(TRUE) THEN Append(items_ommited, item)
                         ELSE items_ommited
                    /\ decision' = "Replaced"
                    /\ idx' = idx + 1
                    /\ pc' = "scan"
               [] OTHER ->
                    /\ items_ommited' =
                         IF OmitAfterPrompt(FALSE) THEN Append(items_ommited, item)
                         ELSE items_ommited
                    /\ decision' = "Omitted"
                    /\ idx' = idx + 1
                    /\ pc' = "scan"
                    /\ UNCHANGED <<items_to_remove, items_to_add>>
  /\ UNCHANGED <<entry, config, catalog, playlists, playlist, items, item, search_results,
                 replacements, duplicate, simple_mode, dry, calls, returned, meets>>

\* lines 488-495: after the loop, remove the tracks to be upgraded
CommitRemove ==
  /\ pc = "scan"
  /\ idx > Len(items)
  /\ ~ dry
  /\ IF ShouldRemove(items_to_remove)
       THEN /\ playlists' =
                 [playlists EXCEPT ![playlist].items = RemoveItems(@, items_to_remove)]
            /\ calls' = Append(calls, Call("removeItems", playlist))
       ELSE UNCHANGED <<playlists, calls>>
  /\ pc' = "add"
  /\ UNCHANGED <<entry, config, catalog, playlist, items, idx, item, search_results,
                 replacements, items_to_remove, items_to_add, items_ommited,
                 duplicate, simple_mode, dry, response, decision, prompts,
                 returned, meets>>

\* lines 497-503: add the better tracks
CommitAdd ==
  /\ pc = "add"
  /\ IF ShouldAdd(items_to_add)
       THEN /\ playlists' =
                 [playlists EXCEPT ![playlist].items = AddItems(@, items_to_add)]
            /\ calls' = Append(calls, Call("addItems", playlist))
       ELSE UNCHANGED <<playlists, calls>>
  /\ pc' = "return"
  /\ UNCHANGED <<entry, config, catalog, playlist, items, idx, item, search_results,
                 replacements, items_to_remove, items_to_add, items_ommited,
                 duplicate, simple_mode, dry, response, decision, prompts,
                 returned, meets>>

\* line 531 (and line 488 when dry): return playlist
Return ==
  /\ \/ pc = "return"
     \/ pc = "scan" /\ idx > Len(items) /\ dry
  /\ returned' = playlist
  /\ pc' = "done"
  /\ UNCHANGED <<entry, config, catalog, playlists, playlist, items, idx, item,
                 search_results, replacements, items_to_remove, items_to_add,
                 items_ommited, duplicate, simple_mode, dry, response, decision,
                 prompts, calls, meets>>

Next ==
  \/ Main
  \/ DirectCall
  \/ Begin
  \/ ScanTrack
  \/ Prompt
  \/ CommitRemove
  \/ CommitAdd
  \/ Return

Spec == Init /\ [][Next]_vars

\* ----------------------------------------- the quality check on its own
Codecs == {"mp3", "aac", "flac", "alac", "opus"}

QualityBitrates == {0, 255, 256, 319, 320, 1000}

OptionTexts == {None, <<>>, <<"1">>, <<"0">>}

InitQuality ==
  /\ pc = "quality"
  /\ entry = "none"
  /\ config \in [force_all : OptionTexts, force_lossless : OptionTexts]
  /\ catalog = <<>>
  /\ playlists = <<>>
  /\ playlist = 0
  /\ items = <<>>
  /\ idx = 1
  /\ \E c \in Codecs, b \in QualityBitrates : item = Track(1, None, <<"a">>, c, b)
  /\ search_results = <<>>
  /\ replacements = <<>>
  /\ items_to_remove = <<>>
  /\ items_to_add = <<>>
  /\ items_ommited = <<>>
  /\ duplicate = FALSE
  /\ simple_mode = FALSE
  /\ dry = FALSE
  /\ response = None
  /\ decision = "none"
  /\ prompts = 0
  /\ calls = <<>>
  /\ returned = 0
  /\ meets = FALSE

\* line 402: check_quality_requirements(item)
CheckQuality ==
  /\ pc = "quality"
  /\ meets' = check_quality_requirements(config, item)
  /\ pc' = "checked"
  /\ UNCHANGED <<entry, config, catalog, playlists, playlist, items, idx, item,
                 search_results, replacements, items_to_remove, items_to_add,
                 items_ommited, duplicate, simple_mode, dry, response, decision,
                 prompts, calls, returned>>

NextQuality == CheckQuality

SpecQuality == InitQuality /\ [][NextQuality]_vars

\* ------------------------------------------------ the ranker on its own
RankTitles == {None, <<>>, <<"A">>, <<"a", "b">>}

RankAlbumArtists == {<<"a">>, <<"B">>}

RankBitrates == {NoneInt, 0, 128, 320, 900}

RankCandidates ==
  {Track(9, o, g, "mp3", b) : o \in RankTitles, g \in RankAlbumArtists,
                               b \in RankBitrates}

RankOriginals ==
  { Track(1, None, <<"a">>, "mp3", 128),
    Track(1, <<"A">>, <<"B">>, "mp3", 128),
    Track(1, <<>>, <<"a", "b">>, "mp3", 320) }

InitRank ==
  /\ pc = "r413"
  /\ entry = "none"
  /\ config \in {[force_all |-> None, force_lossless |-> None]}
  /\ catalog = <<>>
  /\ playlists = <<>>
  /\ playlist = 0
  /\ items = <<>>
  /\ idx = 1
  /\ item \in RankOriginals
  /\ search_results \in SeqsUpTo(RankCandidates, MaxRaw)
  /\ replacements = <<>>
  /\ items_to_remove = <<>>
  /\ items_to_add = <<>>
  /\ items_ommited = <<>>
  /\ duplicate = FALSE
  /\ simple_mode = FALSE
  /\ dry = FALSE
  /\ response = None
  /\ decision = "none"
  /\ prompts = 0
  /\ calls = <<>>
  /\ returned = 0
  /\ meets = FALSE

RankFrame ==
  UNCHANGED <<entry, config, catalog, playlists, playlist, items, idx, item,
              search_results, items_to_remove, items_to_add, items_ommited,
              duplicate, simple_mode, dry, response, decision, prompts, calls,
              returned, meets>>

\* line 413
RankBitrate ==
  /\ pc = "r413"
  /\ replacements' = HigherBitrate(item, search_results)
  /\ pc' = "r416"
  /\ RankFrame

\* line 416
RankArtist ==
  /\ pc = "r416"
  /\ replacements' = SameArtist(item, replacements)
  /\ pc' = "r419"
  /\ RankFrame

\* lines 419-425
RankSort ==
  /\ pc = "r419"
  /\ replacements' = SortedByBitrate(SortedByArtist(replacements))
  /\ pc' = "ranked"
  /\ RankFrame

NextRank ==
  \/ RankBitrate
  \/ RankArtist
  \/ RankSort

SpecRank == InitRank /\ [][NextRank]_vars

\* ------------------------------------------------------------ properties
CallsOf(op) == {i \in 1..Len(calls) : calls[i].op = op}

Mutations == CallsOf("removeItems") \cup CallsOf("addItems")

ScanOver == (pc = "scan" /\ idx > Len(items)) \/ pc \in {"add", "return", "done"}

Keys(s) == {s[i].ratingKey : i \in 1..Len(s)}

Last(s) == s[Len(s)]

\* the answer is not empty and int() or the list index rejects it
Rejected(r, reps) ==
  /\ r # <<>>
  /\ \/ ~ IntOk(r)
     \/ IntVal(r) >= Len(reps)
     \/ IntVal(r) < 0 - Len(reps)

\* the answer is not empty and is not one of the indexes 0..len-1
NotAnIndex(r, reps) ==
  /\ r # <<>>
  /\ \/ ~ IntOk(r)
     \/ IntVal(r) >= Len(reps)
     \/ IntVal(r) < 0

\* C1: in a run with dry=true, whatever duplicate and simple_mode are, no
\* playlist is created and removeItems and addItems are never called; the
\* playlist keeps the track sequence read at the start, every track is
\* scanned, and the playlist returned is the one passed in.
C1_DryRunNeverMutates ==
  dry =>
    /\ calls = <<>>
    /\ Len(playlists) = 1
    /\ playlist = 1
    /\ pc # "begin" => playlists[1].items = items
    /\ pc = "done" => returned = 1 /\ idx = Len(items) + 1

C1_Witness ==
  /\ dry /\ duplicate /\ ~ simple_mode
  /\ pc = "done"
  /\ Len(items_to_remove) > 0
  /\ Len(items_ommited) > 0

\* C2 as claimed: in manual mode an answer that is not a number or not an
\* index of the candidate list makes the track Omitted and the scan moves on;
\* an empty answer gives Omitted, a valid index i gives candidate[i].
C2_InvalidAnswerOmits ==
  (response # None) =>
    /\ NotAnIndex(response, replacements) =>
         decision = "Omitted" /\ pc # "prompt" /\ Last(items_ommited) = item
    /\ response = <<>> => decision = "Omitted"
    /\ (IntOk(response) /\ IntVal(response) \in 0..(Len(replacements) - 1)) =>
         decision = "Replaced" /\ Last(items_to_add) = replacements[IntVal(response) + 1]

\* C2 as amended: at the prompt, an answer that int() rejects or that is an
\* index outside -len..len-1 records nothing and the prompt is asked again
\* for the same track; an empty answer records the track as omitted and the
\* scan moves on; an index i in 0..len-1 records candidate[i] as the
\* replacement, and an index -k in -len..-1 the k-th candidate from the end.
C2_InvalidAnswerAsksAgain ==
  [][ pc = "prompt" =>
        LET r == response'
            n == Len(replacements)
        IN /\ Rejected(r, replacements) =>
                /\ pc' = "prompt"
                /\ decision' = "pending"
                /\ UNCHANGED <<idx, items_to_remove, items_to_add, items_ommited>>
           /\ r = <<>> =>
                /\ pc' = "scan" /\ idx' = idx + 1
                /\ decision' = "Omitted"
                /\ items_ommited' = Append(items_ommited, item)
                /\ UNCHANGED <<items_to_remove, items_to_add>>
           /\ (IntOk(r) /\ IntVal(r) \in 0..(n - 1)) =>
                /\ pc' = "scan" /\ idx' = idx + 1
                /\ decision' = "Replaced"
                /\ items_to_add' = Append(items_to_add, replacements[IntVal(r) + 1])
                /\ items_to_remove' = Append(items_to_remove, item)
                /\ UNCHANGED items_ommited
           /\ (IntOk(r) /\ IntVal(r) \in (0 - n)..(0 - 1)) =>
                /\ pc' = "scan" /\ idx' = idx + 1
                /\ decision' = "Replaced"
                /\ items_to_add' = Append(items_to_add, replacements[n + IntVal(r) + 1])
                /\ items_to_remove' = Append(items_to_remove, item)
                /\ UNCHANGED items_ommited
    ]_vars

C2_Witness ==
  /\ pc = "prompt"
  /\ response = <<"5">>
  /\ Len(replacements) = 2
  /\ decision = "pending"

\* C3: in a run with dry=false no removeItems or addItems call is made
\* before the loop over the tracks has ended; removeItems is called at most
\* once, and exactly when items_to_remove is not empty; addItems is called at
\* most once, and exactly when items_to_add is not empty; removeItems comes
\* before addItems.
C3_CommitAfterScanRemoveThenAdd ==
  /\ ~ ScanOver => Mutations = {}
  /\ Cardinality(CallsOf("removeItems")) <= 1
  /\ Cardinality(CallsOf("addItems")) <= 1
  /\ (~ dry /\ pc \in {"add", "return", "done"}) =>
       (CallsOf("removeItems") # {} <=> Len(items_to_remove) > 0)
  /\ (~ dry /\ pc \in {"return", "done"}) =>
       (CallsOf("addItems") # {} <=> Len(items_to_add) > 0)
  /\ \A i \in CallsOf("removeItems"), j \in CallsOf("addItems") : i < j
  /\ pc = "add" => CallsOf("addItems") = {}

C3_Witness ==
  /\ ~ dry
  /\ pc = "done"
  /\ CallsOf("removeItems") # {}
  /\ CallsOf("addItems") # {}
  /\ Len(items_ommited) > 0

\* C4: in a run with duplicate=true and dry=false one playlist is created,
\* before the scan, titled "Copy of T" with the summary, the type and the
\* track sequence of the original; removeItems and addItems go to the new
\* playlist only, the original keeps its track sequence, and the new
\* playlist is returned.
C4_DuplicateLeavesOriginal ==
  (duplicate /\ ~ dry /\ pc \notin {"idle", "begin"}) =>
    /\ Len(playlists) = 2
    /\ CallsOf("create") = {1}
    /\ calls[1].target = 2
    /\ playlist = 2
    /\ playlists[2].title = CopyOf \o playlists[1].title
    /\ playlists[2].summary = playlists[1].summary
    /\ playlists[2].playlistType = playlists[1].playlistType
    /\ Mutations = {} => playlists[2].items = playlists[1].items
    /\ playlists[1].items = items
    /\ \A i \in Mutations : calls[i].target = 2
    /\ pc = "done" => returned = 2

C4_Witness ==
  /\ duplicate /\ ~ dry
  /\ pc = "done"
  /\ playlists[1].title = Favorites
  /\ CallsOf("removeItems") # {}
  /\ playlists[2].items # playlists[1].items

\* the decision for the track the loop is at is the top-ranked candidate
TopChosen ==
  /\ decision = "Replaced"
  /\ Last(items_to_add) = replacements[1]
  /\ Last(items_to_remove) = item

\* C5 as claimed: in every run with dry=true, whatever simple_mode was
\* asked for, input() is never called and every substandard track with a
\* non-empty ranked list gets the top-ranked candidate.
C5_DryForcesSimpleMode ==
  dry =>
    /\ prompts = 0
    /\ pc # "prompt"
    /\ (decision # "none" /\ ~ meets /\ Len(replacements) > 0) => TopChosen

\* C5 as amended: in every dry run started by the script's main loop,
\* simple_mode is True without the user being asked, input() is never called
\* for a selection and every substandard track with a non-empty ranked list
\* gets the top-ranked candidate. upgrade_playlist itself does not force
\* simple mode: called with dry=true and simple_mode=false it prompts.
C5_MainDryForcesSimpleMode ==
  (entry = "main" /\ dry) =>
    /\ simple_mode
    /\ prompts = 0
    /\ pc # "prompt"
    /\ (decision # "none" /\ ~ meets /\ Len(replacements) > 0) => TopChosen

C5_Witness ==
  /\ entry = "main" /\ dry
  /\ decision = "Replaced"
  /\ Len(replacements) = 2
  /\ pc = "done"

\* C6: check_quality_requirements gives false when force_all is set; else,
\* when force_lossless is set, true exactly for the codecs alac and flac;
\* else true unless the codec is mp3 with a bitrate below 320 or aac with a
\* bitrate below 256.
C6_QualityRequirements ==
  pc = "checked" =>
    IF Truthy(config.force_all) THEN meets = FALSE
    ELSE IF Truthy(config.force_lossless)
      THEN meets = (item.audioCodec = "alac" \/ item.audioCodec = "flac")
    ELSE /\ item.audioCodec = "mp3" => (meets <=> item.bitrate >= 320)
         /\ item.audioCodec = "aac" => (meets <=> item.bitrate >= 256)
         /\ item.audioCodec \notin {"mp3", "aac"} => meets

C6_Witness ==
  /\ pc = "checked"
  /\ ~ Truthy(config.force_all) /\ ~ Truthy(config.force_lossless)
  /\ item.audioCodec = "mp3" /\ item.bitrate = 320
  /\ meets

\* C7: every candidate of the ranked list has a derived artist that
\* contains, case-insensitively, the derived artist of the original track.
C7_RankedArtistContainsOriginal ==
  pc = "ranked" =>
    \A i \in 1..Len(replacements) :
      StrIn(casefold(artist(item)), casefold(artist(replacements[i])))

C7_Witness ==
  /\ pc = "ranked"
  /\ Len(search_results) = 2
  /\ Len(replacements) = 1
  /\ search_results[1].bitrate > item.bitrate
  /\ search_results[2].bitrate > item.bitrate
  /\ artist(replacements[1]) # artist(item)

\* C8: the ranked list is sorted by bitrate descending, and candidates of
\* equal bitrate are in ascending order of their derived artist.
C8_SortedByBitrateThenArtist ==
  pc = "ranked" =>
    \A i, j \in 1..Len(replacements) :
      i < j =>
        /\ replacements[i].bitrate >= replacements[j].bitrate
        /\ replacements[i].bitrate = replacements[j].bitrate =>
             ~ StrLess(artist(replacements[j]), artist(replacements[i]))

\* C9 as claimed: at the end of the scan no track is in both items_to_remove
\* and items_ommited, also when the playlist lists a track more than once.
C9_RemoveOmitDisjoint ==
  ScanOver => Keys(items_to_remove) \cap Keys(items_ommited) = {}

\* C9 as amended: at the end of the scan of a playlist that lists no track
\* more than once, no track is in both items_to_remove and items_ommited.
C9_RemoveOmitDisjointNoRepeats ==
  (ScanOver /\ Cardinality(Keys(items)) = Len(items)) =>
    Keys(items_to_remove) \cap Keys(items_ommited) = {}

C9_Witness ==
  /\ ScanOver
  /\ ~ simple_mode
  /\ Len(items) = 2
  /\ Cardinality(Keys(items)) = 2
  /\ Len(items_to_remove) = 1
  /\ Len(items_ommited) = 1
  /\ prompts >= 2

\* C10 as claimed: a candidate survives the artist filter only if its
\* derived artist is contained, case-insensitively, in the original's.
C10_FilterKeepsContainedInOriginal ==
  pc = "r419" =>
    \A i \in 1..Len(replacements) :
      StrIn(casefold(artist(replacements[i])), casefold(artist(item)))

\* C10 as amended: a candidate survives the artist filter only if the
\* original's derived artist is contained, case-insensitively, in the
\* candidate's; every other candidate is dropped.
C10_FilterKeepsContainingOriginal ==
  pc = "r419" =>
    /\ \A i \in 1..Len(replacements) :
         StrIn(casefold(artist(item)), casefold(artist(replacements[i])))
    /\ Len(replacements) =
         Cardinality({i \in 1..Len(search_results) :
            /\ search_results[i].bitrate # NoneInt
            /\ search_results[i].bitrate > item.bitrate
            /\ StrIn(casefold(artist(item)), casefold(artist(search_results[i])))})

C10_Witness ==
  /\ pc = "r419"
  /\ Len(replacements) = 1
  /\ Len(artist(replacements[1])) > Len(artist(item))
  /\ Len(search_results) = 2
  /\ search_results[2].bitrate > item.bitrate
  /\ search_results[1].bitrate > item.bitrate

\* the ranked candidate list of a track the run has searched for
RankedFor(t) == Rank(t, catalog[t.ratingKey])

\* C11: at every point of the scan items_to_add and items_to_remove have the
\* same length, and items_to_add[i] is the replacement of items_to_remove[i]:
\* items_to_remove[i] is a track of the playlist, items_to_add[i] is one of
\* the candidates ranked for it, and its bitrate is above that track's.
C11_AddMatchesRemoveByPosition ==
  /\ Len(items_to_add) = Len(items_to_remove)
  /\ \A i \in 1..Len(items_to_remove) :
       LET t == items_to_remove[i]
           r == items_to_add[i]
       IN /\ \E k \in 1..Len(items) : items[k] = t
          /\ t.ratingKey \in DOMAIN catalog
          /\ \E j \in 1..Len(RankedFor(t)) : RankedFor(t)[j] = r
          /\ r.bitrate > t.bitrate

C11_Witness ==
  /\ pc = "scan"
  /\ ~ simple_mode
  /\ Len(items_to_remove) = 2
  /\ items_to_remove[1] # items_to_remove[2]
  /\ items_to_add[1] # items_to_add[2]
  /\ Len(RankedFor(items_to_remove[1])) = 2
  /\ items_to_add[1] = RankedFor(items_to_remove[1])[2]

====
